---- MODULE Spec2Model ----
(***************************************************************************)
(* Model of fatiando/potential/synthetic.py: from_prisms and from_spheres. *)
(*                                                                         *)
(* Numbers.  Python floats are modelled at reduced precision: a value is   *)
(* an integer count of units of 2^-Prec, addition and multiplication by an *)
(* integer are exact, and a float division rounds its quotient to the      *)
(* nearest unit (FDiv).  An integer-typed numpy array holds whole numbers  *)
(* only: storing into it truncates toward zero (Store).                    *)
(*                                                                         *)
(* Control.  One call runs at a time.  pc is the position inside the       *)
(* running function; every action is one block of the source.  A raised    *)
(* exception ends the call (pc = "raised"), discards the locals and leaves *)
(* its message in err.                                                     *)
(***************************************************************************)
EXTENDS Integers, Sequences, FiniteSets, TLC

VARIABLES
    pc,        \* position in the running call
    op,        \* the function being run: "none", "from_prisms", "from_spheres"
    args,      \* the call's arguments other than grid
    grid,      \* the argument named grid: a mode string (from_prisms) or the caller's dict (from_spheres)
    data,      \* the local named data: a dict (from_prisms) or an array (from_spheres)
    i, j,      \* loop position: point index and body index, 1-based
    ret,       \* what the call returned
    err,       \* message of the exception that ended the call, "none" otherwise
    lastEval,  \* history: the last invocation of the external formula in this call
    grid0,     \* history: the caller's dict as it was when from_spheres was entered
    again      \* history: this from_spheres call repeats the previous, successful one

vars == <<pc, op, args, grid, data, i, j, ret, err, lastEval, grid0, again>>

----------------------------------------------------------------------------
(* Bounds of the model *)

MaxNx == 4
MaxNy == 2
MaxBodies == 2
MaxPts == 2

----------------------------------------------------------------------------
(* Float arithmetic at reduced precision *)

Prec == 4
Scale == 2 ^ Prec
Half == Scale \div 2

Whole(n) == n * Scale

\* nearest integer to p/q, q > 0, ties upward
Round(p, q) == (2 * p + q) \div (2 * q)

\* float division a / b of two values in units, b > 0
FDiv(a, b) == Round(a * Scale, b)

\* math.ceil of a value in units, as an integer
Ceil(v) == -((-v) \div Scale)

\* conversion of a float to an integer dtype: truncation toward zero
Trunc(v) == IF v >= 0 THEN (v \div Scale) * Scale ELSE -(((-v) \div Scale) * Scale)

Store(dtype, v) == IF dtype = "int" THEN Trunc(v) ELSE v

Min2(a, b) == IF a <= b THEN a ELSE b

Zeros(n) == [k \in 1..n |-> 0]

NoData == << >>
NoResult == << >>
NoEval == [i |-> 0, j |-> 0, x |-> 0, y |-> 0, z |-> 0]

----------------------------------------------------------------------------
(* The external formula libraries fatiando.grav.prism and fatiando.grav.sphere *)

PrismFields == {"gz", "gxx", "gxy", "gxz", "gyy", "gyz", "gzz"}
\* variant: the sphere table copied from the prism table
SphereFieldsSeven == PrismFields
SphereFields == {"gz", "gxx", "gyy", "gzz"}

FieldIndex(field) ==
    CASE field = "gz" -> 1
      [] field = "gxx" -> 2
      [] field = "gxy" -> 3
      [] field = "gxz" -> 4
      [] field = "gyy" -> 5
      [] field = "gyz" -> 6
      [] field = "gzz" -> 7
      [] OTHER -> 0

\* a pure function of the component, the prism and the observation point
PrismFormula(field, p, x, y, z) ==
    FieldIndex(field) * p.value + (x - p.x1) + 2 * (y - p.y1) + 3 * (z - p.z1)

\* the analytic formula is singular at a vertex of the prism
PrismSingular(p, x, y, z) ==
    x \in {p.x1, p.x2} /\ y \in {p.y1, p.y2} /\ z \in {p.z1, p.z2}

\* a pure function of the component, the sphere and the observation point
SphereFormula(field, s, x, y, z) ==
    FieldIndex(field) * s.density + s.radius + (x - s.xc) + 2 * (y - s.yc) + 3 * (z - s.zc)

\* the analytic formula is singular at the centre of the sphere
SphereSingular(s, x, y, z) == x = s.xc /\ y = s.yc /\ z = s.zc

----------------------------------------------------------------------------
(* Inputs *)

FieldNames == PrismFields \cup {"potential"}
GridModes == {"regular", "random", "scatter"}

PrismA == [value |-> 5, x1 |-> Whole(5), x2 |-> Whole(6), y1 |-> Whole(5),
           y2 |-> Whole(6), z1 |-> Whole(1), z2 |-> Whole(2)]
PrismB == [value |-> -9, x1 |-> Whole(1), x2 |-> Whole(2), y1 |-> Whole(1),
           y2 |-> Whole(2), z1 |-> -Whole(1), z2 |-> Whole(1)]
Prisms == {PrismA, PrismB}

SphereA == [density |-> 7, radius |-> Half, xc |-> Whole(1), yc |-> Whole(2),
            zc |-> -Whole(2)]
SphereB == [density |-> -3, radius |-> 3, xc |-> Whole(2), yc |-> Whole(4),
            zc |-> -Whole(1)]
Spheres == {SphereA, SphereB}

BodyLists(S) == UNION {[1..n -> S] : n \in 0..MaxBodies}

\* region limits x1, x2, y1, y2; y1 = y2 is the profile along x
Regions ==
    {[x1 |-> 0, x2 |-> Whole(a), y1 |-> Whole(1), y2 |-> Whole(b)] :
        a \in {1, 2}, b \in {1, 3}}

\* height: a scalar (held as its one value) or one value for each of the n points
HeightArray(n) == [k \in 1..n |-> Whole(1) + (k % 2) * Half]
Heights(n) ==
    {[kind |-> "scalar", v |-> <<Whole(1)>>], [kind |-> "array", v |-> HeightArray(n)]}

\* states of numpy's random generator seen by one uniform() call
Seeds == {0, 1}

GridArray(k, dt, n) ==
    CASE k = "x" -> [dtype |-> dt,
                     a |-> [p \in 1..n |-> IF dt = "int" THEN Whole(p) ELSE Whole(p) + Half]]
      [] k = "y" -> [dtype |-> "float", a |-> [p \in 1..n |-> Whole(2 * p)]]
      [] k = "z" -> [dtype |-> "float", a |-> [p \in 1..n |-> -Whole(1)]]
      [] k = "value" -> [dtype |-> "float", a |-> [p \in 1..n |-> Whole(9) + p]]
      [] OTHER -> [dtype |-> "float", a |-> Zeros(n)]

\* the dicts a caller may pass to from_spheres
Grids ==
    {[k \in keys \cup {"error"} \cup (IF stale THEN {"value"} ELSE {}) |-> GridArray(k, dt, n)] :
        keys \in SUBSET {"x", "y", "z"}, dt \in {"float", "int"}, n \in 1..MaxPts,
        stale \in BOOLEAN}

----------------------------------------------------------------------------
(* numpy helpers *)

\* numpy.arange(start, stop, step) for step > 0: ceil((stop - start)/step) values
Arange(start, stop, step) ==
    LET n == Ceil(FDiv(stop - start, step))
    IN  [k \in 1..n |-> start + (k - 1) * step]

\* variant: the sign of height kept
PosHeightOnes(height, n) ==
    IF height.kind = "scalar"
    THEN [k \in 1..n |-> height.v[1]]
    ELSE [k \in 1..n |-> height.v[k]]

\* -height*numpy.ones(n), height a scalar or an array of n values
NegHeightOnes(height, n) ==
    IF height.kind = "scalar"
    THEN [k \in 1..n |-> -height.v[1]]
    ELSE [k \in 1..n |-> -height.v[k]]

\* numpy.random.uniform(lo, hi, n) with the generator in state seed
Uniform(seed, lo, hi, n) ==
    [k \in 1..n |-> IF hi = lo THEN lo ELSE lo + ((7 * seed + 5 * k) % (hi - lo))]

\* numpy.zeros_like(a): zeros of the shape and dtype of a
ZerosLike(a) == [dtype |-> a.dtype, a |-> Zeros(Len(a.a))]

\* the exception a formula raises at a singular point
FormulaError == "ArithmeticError: singular point"

Raise(msg) ==
    /\ pc' = "raised"
    /\ err' = msg
    /\ data' = NoData
    /\ ret' = NoResult
    /\ i' = 0
    /\ j' = 0

\* loop position after the body (i, j) of a loop over n bodies
NextI(n) == IF j < n THEN i ELSE i + 1
NextJ(n) == IF j < n THEN j + 1 ELSE 1

----------------------------------------------------------------------------
(* from_prisms *)

\* variant: the field looked up only when the formula is needed
PrismsCheckGridOnly(g, field) ==
    IF g \notin {"regular", "random"} THEN "Invalid grid type" ELSE "none"

\* lines 98-108: the two assertions
PrismsCheck(g, field) ==
    IF g \notin {"regular", "random"} THEN "Invalid grid type"
    ELSE IF field \notin PrismFields THEN "Invalid gravity field"
    ELSE "none"

\* lines 119-120, 132-134: x_range
XRange(x1, x2, nx) ==
    LET dx == FDiv(x2 - x1, Whole(nx - 1))
        x_range == Arange(x1, x2, dx)
    IN  IF Len(x_range) < nx THEN Append(x_range, x2) ELSE x_range

\* lines 122-130, 136-138: y_range
YRange(y1, y2, ny) ==
    LET y_range == IF ny > 1
                   THEN Arange(y1, y2, FDiv(y2 - y1, Whole(ny - 1)))
                   ELSE <<y1>>
    IN  IF Len(y_range) < ny THEN Append(y_range, y2) ELSE y_range

\* lines 140-151: for y in y_range: for x in x_range: append
GridXs(x_range, y_range) ==
    [k \in 1..(Len(x_range) * Len(y_range)) |-> x_range[((k - 1) % Len(x_range)) + 1]]
GridYs(x_range, y_range) ==
    [k \in 1..(Len(x_range) * Len(y_range)) |-> y_range[((k - 1) \div Len(x_range)) + 1]]

\* lines 161-169: the random scatter
RandomXs(seed, x1, x2, nx, ny) == Uniform(seed, x1, x2, nx * ny)
RandomYs(seed, y1, y2, nx, ny) ==
    IF ny > 1 THEN Uniform(seed, y1, y2, nx * ny) ELSE <<y1>>

\* line 179: zip(data['x'], data['y'], data['z']) stops at the shortest
PrismsPoints(d) == Min2(Len(d.x), Min2(Len(d.y), Len(d.z)))

CallFromPrisms ==
    /\ pc = "idle"
    /\ \E prisms \in BodyLists(Prisms), r \in Regions, nx \in 1..MaxNx, ny \in 1..MaxNy,
          field \in FieldNames, g \in GridModes :
          /\ (r.y1 = r.y2) => (ny = 1)
          /\ \E height \in Heights(nx * ny) :
                args' = [prisms |-> prisms, x1 |-> r.x1, x2 |-> r.x2, y1 |-> r.y1,
                         y2 |-> r.y2, nx |-> nx, ny |-> ny, height |-> height,
                         field |-> field]
          /\ grid' = g
    /\ op' = "from_prisms"
    /\ pc' = "validate"
    /\ data' = NoData
    /\ ret' = NoResult
    /\ err' = "none"
    /\ i' = 0
    /\ j' = 0
    /\ lastEval' = NoEval
    /\ grid0' = << >>
    /\ again' = FALSE

PrismsValidate ==
    /\ op = "from_prisms"
    /\ pc = "validate"
    /\ LET e == PrismsCheck(grid, args.field)
       IN  IF e # "none"
           THEN Raise(e)
           ELSE /\ pc' = "alloc"
                /\ UNCHANGED <<data, ret, err, i, j>>
    /\ UNCHANGED <<op, args, grid, lastEval, grid0, again>>

\* lines 110-111
PrismsAlloc ==
    /\ op = "from_prisms"
    /\ pc = "alloc"
    /\ data' = [z |-> NegHeightOnes(args.height, args.nx * args.ny),
                value |-> Zeros(args.nx * args.ny),
                error |-> Zeros(args.nx * args.ny)]
    /\ pc' = "grid"
    /\ UNCHANGED <<op, args, grid, i, j, ret, err, lastEval, grid0, again>>

\* lines 115-155 and 173-174
PrismsRegular ==
    /\ op = "from_prisms"
    /\ pc = "grid"
    /\ grid = "regular"
    /\ IF args.nx = 1
       THEN Raise("ZeroDivisionError: float division")
       ELSE LET x_range == XRange(args.x1, args.x2, args.nx)
                y_range == YRange(args.y1, args.y2, args.ny)
            IN  /\ data' = data @@ [grid |-> TRUE, nx |-> args.nx, ny |-> args.ny,
                                    x |-> GridXs(x_range, y_range),
                                    y |-> GridYs(x_range, y_range)]
                /\ pc' = "loop"
                /\ i' = 1
                /\ j' = 1
                /\ UNCHANGED <<ret, err>>
    /\ UNCHANGED <<op, args, grid, lastEval, grid0, again>>

\* lines 157-174
PrismsRandom ==
    /\ op = "from_prisms"
    /\ pc = "grid"
    /\ grid = "random"
    /\ \E sx \in Seeds, sy \in Seeds :
          data' = data @@ [grid |-> FALSE,
                           x |-> RandomXs(sx, args.x1, args.x2, args.nx, args.ny),
                           y |-> RandomYs(sy, args.y1, args.y2, args.nx, args.ny)]
    /\ pc' = "loop"
    /\ i' = 1
    /\ j' = 1
    /\ UNCHANGED <<op, args, grid, ret, err, lastEval, grid0, again>>

\* lines 179-189: one pass through the body of the inner loop
PrismsAccumulate ==
    /\ op = "from_prisms"
    /\ pc = "loop"
    /\ i <= PrismsPoints(data)
    /\ j <= Len(args.prisms)
    /\ LET x == data.x[i]
           y == data.y[i]
           z == data.z[i]
           prism == args.prisms[j]
       IN  /\ lastEval' = [i |-> i, j |-> j, x |-> x, y |-> y, z |-> z]
           /\ IF PrismSingular(prism, x, y, z)
              THEN Raise(FormulaError)
              ELSE /\ data' = [data EXCEPT
                                  !.value[i] = @ + PrismFormula(args.field, prism, x, y, z)]
                   /\ i' = NextI(Len(args.prisms))
                   /\ j' = NextJ(Len(args.prisms))
                   /\ UNCHANGED <<pc, ret, err>>
    /\ UNCHANGED <<op, args, grid, grid0, again>>

\* lines 191-193
PrismsReturn ==
    /\ op = "from_prisms"
    /\ pc = "loop"
    /\ i > PrismsPoints(data) \/ Len(args.prisms) = 0
    /\ ret' = data
    /\ pc' = "returned"
    /\ data' = NoData
    /\ i' = 0
    /\ j' = 0
    /\ UNCHANGED <<op, args, grid, err, lastEval, grid0, again>>

----------------------------------------------------------------------------
(* from_spheres *)

\* variant: the assertion on 'z' left out
SpheresCheckNoZ(g, field) ==
    IF field \notin SphereFields THEN "Invalid gravity field"
    ELSE IF "x" \notin DOMAIN g THEN "Invalid grid. Missing 'x' key."
    ELSE IF "y" \notin DOMAIN g THEN "Invalid grid. Missing 'y' key."
    ELSE "none"

\* lines 224-230: the four assertions
SpheresCheck(g, field) ==
    IF field \notin SphereFields THEN "Invalid gravity field"
    ELSE IF "x" \notin DOMAIN g THEN "Invalid grid. Missing 'x' key."
    ELSE IF "y" \notin DOMAIN g THEN "Invalid grid. Missing 'y' key."
    ELSE IF "z" \notin DOMAIN g THEN "Invalid grid. Missing 'z' key."
    ELSE "none"

\* variant: the accumulation starts from the value entry the grid already has
SpheresInitialKeep ==
    IF "value" \in DOMAIN grid THEN grid["value"] ELSE ZerosLike(grid["x"])

\* line 240: data = numpy.zeros_like(grid['x'])
SpheresInitial == ZerosLike(grid["x"])

\* line 242: zip(grid['x'], grid['y'], grid['z']) stops at the shortest
SpheresPoints(g) == Min2(Len(g["x"].a), Min2(Len(g["y"].a), Len(g["z"].a)))

\* the caller passes a dict of its own: a new one, or the one of the call before
CallFromSpheres ==
    /\ pc = "idle" \/ (op = "from_spheres" /\ pc \in {"returned", "raised"})
    /\ \E spheres \in BodyLists(Spheres), field \in FieldNames,
          g \in (IF pc = "idle" THEN Grids ELSE {grid}) :
          /\ args' = [spheres |-> spheres, field |-> field]
          /\ grid' = g
          /\ grid0' = g
          /\ again' = (/\ op = "from_spheres"
                       /\ pc = "returned"
                       /\ g = grid
                       /\ spheres = args.spheres
                       /\ field = args.field)
    /\ op' = "from_spheres"
    /\ pc' = "validate"
    /\ data' = NoData
    /\ ret' = NoResult
    /\ err' = "none"
    /\ i' = 0
    /\ j' = 0
    /\ lastEval' = NoEval

SpheresValidate ==
    /\ op = "from_spheres"
    /\ pc = "validate"
    /\ LET e == SpheresCheck(grid, args.field)
       IN  IF e # "none"
           THEN Raise(e)
           ELSE /\ pc' = "alloc"
                /\ UNCHANGED <<data, ret, err, i, j>>
    /\ UNCHANGED <<op, args, grid, lastEval, grid0, again>>

\* lines 238-240
SpheresAlloc ==
    /\ op = "from_spheres"
    /\ pc = "alloc"
    /\ data' = SpheresInitial
    /\ pc' = "loop"
    /\ i' = 1
    /\ j' = 1
    /\ UNCHANGED <<op, args, grid, ret, err, lastEval, grid0, again>>

\* variant: the accumulation is done in grid['value'] itself
SpheresAccumulateInPlace ==
    /\ op = "from_spheres"
    /\ pc = "loop"
    /\ i <= SpheresPoints(grid)
    /\ j <= Len(args.spheres)
    /\ LET x == grid["x"].a[i]
           y == grid["y"].a[i]
           z == grid["z"].a[i]
           sphere == args.spheres[j]
           sum == [data EXCEPT
                      !.a[i] = Store(data.dtype,
                                     @ + SphereFormula(args.field, sphere, x, y, z))]
       IN  /\ lastEval' = [i |-> i, j |-> j, x |-> x, y |-> y, z |-> z]
           /\ IF SphereSingular(sphere, x, y, z)
              THEN Raise(FormulaError) /\ UNCHANGED grid
              ELSE /\ data' = sum
                   /\ grid' = ("value" :> sum) @@ grid
                   /\ i' = NextI(Len(args.spheres))
                   /\ j' = NextJ(Len(args.spheres))
                   /\ UNCHANGED <<pc, ret, err>>
    /\ UNCHANGED <<op, args, grid0, again>>

\* lines 242-250: one pass through the body of the inner loop
SpheresAccumulate ==
    /\ op = "from_spheres"
    /\ pc = "loop"
    /\ i <= SpheresPoints(grid)
    /\ j <= Len(args.spheres)
    /\ LET x == grid["x"].a[i]
           y == grid["y"].a[i]
           z == grid["z"].a[i]
           sphere == args.spheres[j]
       IN  /\ lastEval' = [i |-> i, j |-> j, x |-> x, y |-> y, z |-> z]
           /\ IF SphereSingular(sphere, x, y, z)
              THEN Raise(FormulaError)
              ELSE /\ data' = [data EXCEPT
                                  !.a[i] = Store(data.dtype,
                                                 @ + SphereFormula(args.field, sphere, x, y, z))]
                   /\ i' = NextI(Len(args.spheres))
                   /\ j' = NextJ(Len(args.spheres))
                   /\ UNCHANGED <<pc, ret, err>>
    /\ UNCHANGED <<op, args, grid, grid0, again>>

\* line 252: grid['value'] = data, and the function ends without a return value
SpheresStore ==
    /\ op = "from_spheres"
    /\ pc = "loop"
    /\ i > SpheresPoints(grid) \/ Len(args.spheres) = 0
    /\ grid' = ("value" :> data) @@ grid
    /\ ret' = NoResult
    /\ pc' = "returned"
    /\ data' = NoData
    /\ i' = 0
    /\ j' = 0
    /\ UNCHANGED <<op, args, err, lastEval, grid0, again>>

----------------------------------------------------------------------------
(* The caller between calls *)

\* the caller drops what the last call left and is ready for an unrelated call
CallerDiscards ==
    /\ pc \in {"returned", "raised"}
    /\ pc' = "idle"
    /\ op' = "none"
    /\ args' = << >>
    /\ grid' = << >>
    /\ data' = NoData
    /\ i' = 0
    /\ j' = 0
    /\ ret' = NoResult
    /\ err' = "none"
    /\ lastEval' = NoEval
    /\ grid0' = << >>
    /\ again' = FALSE

----------------------------------------------------------------------------
(* The module after import: no call has been made *)

Init ==
    /\ pc = "idle"
    /\ op = "none"
    /\ args = << >>
    /\ grid = << >>
    /\ data = NoData
    /\ i = 0
    /\ j = 0
    /\ ret = NoResult
    /\ err = "none"
    /\ lastEval = NoEval
    /\ grid0 = << >>
    /\ again = FALSE

Next ==
    \/ CallFromPrisms
    \/ PrismsValidate
    \/ PrismsAlloc
    \/ PrismsRegular
    \/ PrismsRandom
    \/ PrismsAccumulate
    \/ PrismsReturn
    \/ CallFromSpheres
    \/ SpheresValidate
    \/ SpheresAlloc
    \/ SpheresAccumulate
    \/ SpheresStore
    \/ CallerDiscards

Spec == Init /\ [][Next]_vars

----------------------------------------------------------------------------
(* Vocabulary of the properties *)

PrismsReturned == op = "from_prisms" /\ pc = "returned"
SpheresReturned == op = "from_spheres" /\ pc = "returned"

SevenComponents == {"gz", "gxx", "gxy", "gxz", "gyy", "gyz", "gzz"}
FourComponents == {"gz", "gxx", "gyy", "gzz"}
MissingKeyErrors ==
    {"Invalid grid. Missing 'x' key.", "Invalid grid. Missing 'y' key.",
     "Invalid grid. Missing 'z' key."}

Abs(v) == IF v >= 0 THEN v ELSE -v

\* v is the k-th (0-based) of n evenly spaced values from a to b, each interior
\* value within the rounding of k steps
EvenlySpaced(v, a, b, n, k) ==
    /\ 2 * Abs(v * (n - 1) - (a * (n - 1) + k * (b - a))) <= k * (n - 1)
    /\ (k = 0) => (v = a)
    /\ (k = n - 1) => (v = b)

\* the exact sum of the contributions of the first n bodies of a list
RECURSIVE PrismSum(_, _, _, _, _, _)
PrismSum(ps, field, x, y, z, n) ==
    IF n = 0 THEN 0
    ELSE PrismSum(ps, field, x, y, z, n - 1) + PrismFormula(field, ps[n], x, y, z)

RECURSIVE SphereSum(_, _, _, _, _, _)
SphereSum(ss, field, x, y, z, n) ==
    IF n = 0 THEN 0
    ELSE SphereSum(ss, field, x, y, z, n - 1) + SphereFormula(field, ss[n], x, y, z)

\* what a run over the first n spheres of a list leaves in an array of the given dtype
RECURSIVE SphereRun(_, _, _, _, _, _, _)
SphereRun(ss, field, dtype, x, y, z, n) ==
    IF n = 0 THEN 0
    ELSE Store(dtype, SphereRun(ss, field, dtype, x, y, z, n - 1)
                      + SphereFormula(field, ss[n], x, y, z))

Orderings(n) == {q \in [1..n -> 1..n] : \A a, b \in 1..n : (a # b) => (q[a] # q[b])}
Reordered(s, q) == [k \in 1..Len(s) |-> s[q[k]]]

\* the y of observation point k of a from_prisms result (y1 along a profile)
PointY(d, k) == IF k <= Len(d.y) THEN d.y[k] ELSE args.y1

HeightAt(k) == IF args.height.kind = "scalar" THEN args.height.v[1] ELSE args.height.v[k]

----------------------------------------------------------------------------
(* C1: a regular grid with nx >= 2, ny >= 2, x1 < x2 and y1 < y2 has nx*ny
   points, starts at (x1, y1), ends at (x2, y2), and is row-major: point k
   (0-based) has the (k mod nx)-th of nx evenly spaced x values and the
   (k div nx)-th of ny evenly spaced y values. *)
C1_RegularGridRowMajor ==
    (/\ PrismsReturned
     /\ grid = "regular"
     /\ args.nx >= 2 /\ args.ny >= 2
     /\ args.x1 < args.x2 /\ args.y1 < args.y2)
    => LET n == args.nx * args.ny
       IN  /\ Len(ret.x) = n
           /\ Len(ret.y) = n
           /\ ret.x[1] = args.x1 /\ ret.y[1] = args.y1
           /\ ret.x[n] = args.x2 /\ ret.y[n] = args.y2
           /\ \A k \in 0..(n - 1) :
                 /\ EvenlySpaced(ret.x[k + 1], args.x1, args.x2, args.nx, k % args.nx)
                 /\ EvenlySpaced(ret.y[k + 1], args.y1, args.y2, args.ny, k \div args.nx)

(* C2: every from_prisms call that returns, in either mode, returns x, y, z
   and value of the same length nx*ny, and with ny = 1 each of the nx points
   has y = y1. *)
C2_SameLengths ==
    PrismsReturned
    => LET n == args.nx * args.ny
       IN  /\ Len(ret.x) = n
           /\ Len(ret.y) = n
           /\ Len(ret.z) = n
           /\ Len(ret.value) = n
           /\ (args.ny = 1) => \A k \in 1..args.nx : ret.y[k] = args.y1

(* C3: after a successful call of either function the value of every
   observation point is the sum, over all bodies of the list, of the chosen
   formula at that point's own (x, y, z); it is zero for an empty list. *)
C3_ValueIsSumOverBodies ==
    /\ PrismsReturned
       => \A k \in 1..Len(ret.x) :
             /\ k <= Len(ret.value)
             /\ k <= Len(ret.z)
             /\ ret.value[k] = PrismSum(args.prisms, args.field, ret.x[k], PointY(ret, k),
                                        ret.z[k], Len(args.prisms))
    /\ SpheresReturned
       => \A k \in 1..Len(grid["x"].a) :
             grid["value"].a[k] = SphereSum(args.spheres, args.field, grid["x"].a[k],
                                            grid["y"].a[k], grid["z"].a[k],
                                            Len(args.spheres))

(* C4: the values do not depend on the order of the body list: running the
   accumulation over any reordering of the list, on the same observation
   points and component, gives the value the call produced at every point. *)
C4_OrderOfBodiesIrrelevant ==
    /\ PrismsReturned
       => \A q \in Orderings(Len(args.prisms)) :
             \A k \in 1..PrismsPoints(ret) :
                ret.value[k] = PrismSum(Reordered(args.prisms, q), args.field, ret.x[k],
                                        ret.y[k], ret.z[k], Len(args.prisms))
    /\ SpheresReturned
       => \A q \in Orderings(Len(args.spheres)) :
             \A k \in 1..SpheresPoints(grid) :
                grid["value"].a[k] = SphereRun(Reordered(args.spheres, q), args.field,
                                               grid["value"].dtype, grid["x"].a[k],
                                               grid["y"].a[k], grid["z"].a[k],
                                               Len(args.spheres))

(* C5: from_spheres accepts exactly gz, gxx, gyy and gzz and fails with the
   invalid-field error on any other name, gxy, gxz and gyz included, without
   computing a value; from_prisms accepts the seven components and rejects
   every other name. *)
C5_AcceptedComponents ==
    /\ (op = "from_spheres" /\ pc # "validate")
       => /\ (args.field \notin FourComponents)
             => /\ pc = "raised"
                /\ err = "Invalid gravity field"
                /\ lastEval = NoEval
                /\ grid = grid0
          /\ (args.field \in FourComponents) => (err # "Invalid gravity field")
    /\ (op = "from_prisms" /\ pc # "validate")
       => /\ (args.field \notin SevenComponents)
             => /\ pc = "raised"
                /\ err \in {"Invalid gravity field", "Invalid grid type"}
                /\ (grid \in {"regular", "random"}) => (err = "Invalid gravity field")
                /\ lastEval = NoEval
          /\ (args.field \in SevenComponents) => (err # "Invalid gravity field")

C5_Witness ==
    /\ op = "from_spheres"
    /\ args.field = "gxy"
    /\ {"x", "y", "z"} \subseteq DOMAIN grid
    /\ pc = "raised"
    /\ err = "Invalid gravity field"

(* C6: from_spheres on a grid that lacks 'x', 'y' or 'z' fails with the
   missing-key error of a key that is missing, for every set of missing keys
   and every valid component. *)
C6_MissingKeyRejected ==
    (/\ op = "from_spheres"
     /\ pc # "validate"
     /\ args.field \in FourComponents
     /\ ~({"x", "y", "z"} \subseteq DOMAIN grid0))
    => /\ pc = "raised"
       /\ err \in MissingKeyErrors
       /\ (err = "Invalid grid. Missing 'x' key.") => ("x" \notin DOMAIN grid0)
       /\ (err = "Invalid grid. Missing 'y' key.") => ("y" \notin DOMAIN grid0)
       /\ (err = "Invalid grid. Missing 'z' key.") => ("z" \notin DOMAIN grid0)

C6_Witness ==
    /\ op = "from_spheres"
    /\ args.field = "gzz"
    /\ {"x", "y"} \subseteq DOMAIN grid0
    /\ "z" \notin DOMAIN grid0
    /\ pc = "raised"
    /\ err = "Invalid grid. Missing 'z' key."

(* C7: a call with an invalid argument (from_prisms: grid mode or field;
   from_spheres: field or a missing key) fails with the assertion's error
   before any coordinate or array is built and before the formula is invoked. *)
C7_ValidationFirst ==
    LET badPrisms == /\ op = "from_prisms"
                     /\ (grid \notin {"regular", "random"} \/ args.field \notin SevenComponents)
        badSpheres == /\ op = "from_spheres"
                      /\ (\/ args.field \notin FourComponents
                          \/ ~({"x", "y", "z"} \subseteq DOMAIN grid0))
    IN  (badPrisms \/ badSpheres)
        => /\ pc \in {"validate", "raised"}
           /\ DOMAIN data = {}
           /\ lastEval = NoEval
           /\ (pc = "raised")
              => err \in {"Invalid grid type", "Invalid gravity field"} \cup MissingKeyErrors

C7_Witness ==
    /\ op = "from_prisms"
    /\ grid = "regular"
    /\ args.field = "potential"
    /\ Len(args.prisms) > 0
    /\ pc = "raised"
    /\ err = "Invalid gravity field"

(* C8: in from_prisms, in both modes, z of every one of the nx*ny points is
   minus the height, the scalar or the point's own entry of the sequence, and
   the formula is evaluated for point i at that z. *)
C8_ZIsMinusHeight ==
    (op = "from_prisms")
    => /\ ("z" \in DOMAIN data)
          => /\ Len(data.z) = args.nx * args.ny
             /\ \A k \in 1..(args.nx * args.ny) : data.z[k] = -HeightAt(k)
       /\ (pc = "returned")
          => /\ Len(ret.z) = args.nx * args.ny
             /\ \A k \in 1..(args.nx * args.ny) : ret.z[k] = -HeightAt(k)
       /\ (lastEval.i # 0) => (lastEval.z = -HeightAt(lastEval.i))

C8_Witness ==
    /\ PrismsReturned
    /\ grid = "random"
    /\ args.height.kind = "array"
    /\ lastEval.i >= 2
    /\ ret.z[1] # ret.z[2]
    /\ ret.z[2] < 0

(* C9: a successful from_spheres call changes only the 'value' entry of the
   grid, returns nothing, and overwrites an earlier 'value': the new entry is
   the accumulation from zero, so a second call with the same spheres, grid
   and field leaves the value of the first. *)
C9_OnlyValueOverwritten ==
    /\ (op = "from_spheres")
       => \A key \in DOMAIN grid0 \ {"value"} : key \in DOMAIN grid /\ grid[key] = grid0[key]
    /\ SpheresReturned
       => /\ DOMAIN grid = DOMAIN grid0 \cup {"value"}
          /\ DOMAIN ret = {}
          /\ Len(grid["value"].a) = Len(grid["x"].a)
          /\ \A k \in 1..Len(grid["x"].a) :
                grid["value"].a[k] = SphereRun(args.spheres, args.field, grid["x"].dtype,
                                               grid["x"].a[k], grid["y"].a[k],
                                               grid["z"].a[k], Len(args.spheres))
          /\ again => (grid["value"] = grid0["value"])

C9_Witness ==
    /\ SpheresReturned
    /\ again
    /\ Len(args.spheres) > 0
    /\ \E k \in 1..Len(grid["value"].a) : grid["value"].a[k] # 0

(* C10: a from_spheres call that fails at any step, the formula failing
   part-way through the loop included, leaves the grid as it was before the
   call; a failing from_prisms call returns no result. *)
C10_NoPartialResult ==
    /\ (op = "from_spheres" /\ pc # "returned") => (grid = grid0)
    /\ (pc = "raised") => (DOMAIN ret = {} /\ err # "none")

C10_Witness ==
    /\ op = "from_spheres"
    /\ pc = "raised"
    /\ err = FormulaError
    /\ lastEval.i >= 2
    /\ grid = grid0

====
